---- MODULE Spec2Model ----
(***************************************************************************)
(* State-machine model of the APK analysis service of sonirn/Apk-check:    *)
(* the upload route and its background job (performAnalysis), the          *)
(* APKAnalyzer pipeline (extract, parse, detect, repackage, clean up) and  *)
(* the APKSigner (keystore provisioning, align, sign).                     *)
(*                                                                         *)
(* Node runs one callback at a time, so every action below is the code     *)
(* between two awaits / event callbacks of one job; jobs interleave at     *)
(* those points only.                                                      *)
(***************************************************************************)
EXTENDS Integers, Sequences, FiniteSets, TLC

\* ------------------------------------------------------------------ bounds
NumJobs == 2        \* jobs that can be submitted
MaxClock == 2       \* distinct values Date.now() takes during a run
MaxThrows == 1      \* detectors that throw during one runSecurityAnalyses

Jobs == 1..NumJobs

\* ------------------------------------------------------- severities, score
Severities == {"critical", "high", "medium", "low"}

\* ---------------------------------------------------------------- registry
\* runSecurityAnalyses: the detectors in the order of the `analyses` array,
\* each named by the analysisResults key it assigns.
Registry ==
  << "reconnaissance", "xss", "csrf", "ssrf", "idor", "rce", "accessControl",
     "inputValidation", "sqlInjection", "sessionManagement",
     "authenticationTesting", "fileInclusion", "clickjacking", "rateLimiting",
     "businessLogic", "apiTesting", "mobileAppTesting", "clientSideVulns",
     "informationDisclosure", "serverSideVulns", "vulnerabilityScanning",
     "subdomainEnumeration", "portScanning", "directoryEnumeration",
     "manualTesting" >>

Categories == {Registry[i] : i \in 1..Len(Registry)}

\* emptySecurityCheck of initializeAnalysisResults (details "" is "unset").
EmptySecurityCheck ==
  [status |-> "passed", issueCount |-> 0, details |-> "unset", vulnerabilities |-> << >>]

initializeAnalysisResults == [c \in Categories |-> EmptySecurityCheck]

\* The status expression with only severity critical leading to "critical".
CheckStatusCriticalOnly(vs) ==
  IF Len(vs) > 0
    THEN IF \E i \in 1..Len(vs) : vs[i].severity = "critical"
           THEN "critical" ELSE "warning"
    ELSE "passed"

\* The status expression shared by analyzeReconnaissance and analyzeXSS.
CheckStatus(vs) ==
  IF Len(vs) > 0
    THEN IF \E i \in 1..Len(vs) : vs[i].severity \in {"high", "critical"}
           THEN "critical" ELSE "warning"
    ELSE "passed"

\* The extracted AndroidManifest.xml is a record [kind, marks, usesPermission]:
\* kind "absent" (no such file), "binary" (a file xml2js cannot parse) or
\* "text"; marks are the substrings the detectors look for (content.includes);
\* usesPermission is the number of <uses-permission> elements.
ManifestMarks == {"debuggableTrue", "allowBackupTrue", "exportedTrue", "permissionAttr"}

\* The vulnerabilities with recon-003 not looking for android:permission=.
ReconVulnerabilitiesExportedOnly(marks) ==
     (IF "debuggableTrue" \in marks
        THEN << [id |-> "recon-001", severity |-> "medium", location |-> "AndroidManifest.xml"] >>
        ELSE << >>)
  \o (IF "allowBackupTrue" \in marks
        THEN << [id |-> "recon-002", severity |-> "low", location |-> "AndroidManifest.xml"] >>
        ELSE << >>)
  \o (IF "exportedTrue" \in marks
        THEN << [id |-> "recon-003", severity |-> "high", location |-> "AndroidManifest.xml"] >>
        ELSE << >>)

\* analyzeReconnaissance: the vulnerabilities found in the manifest text.
ReconVulnerabilities(marks) ==
     (IF "debuggableTrue" \in marks
        THEN << [id |-> "recon-001", severity |-> "medium", location |-> "AndroidManifest.xml"] >>
        ELSE << >>)
  \o (IF "allowBackupTrue" \in marks
        THEN << [id |-> "recon-002", severity |-> "low", location |-> "AndroidManifest.xml"] >>
        ELSE << >>)
  \o (IF "exportedTrue" \in marks /\ "permissionAttr" \notin marks
        THEN << [id |-> "recon-003", severity |-> "high", location |-> "AndroidManifest.xml"] >>
        ELSE << >>)

\* analyzeReconnaissance: the category result it assigns (existsSync guards
\* the read of the manifest).
analyzeReconnaissance(manifest) ==
  LET vs == IF manifest.kind = "absent" THEN << >> ELSE ReconVulnerabilities(manifest.marks)
  IN  [status |-> CheckStatus(vs), issueCount |-> Len(vs), details |-> "found",
       vulnerabilities |-> vs]

\* A source file is modelled by its path, its extension, the substrings
\* analyzeXSS looks for in its content, and whether readFile(file, "utf8")
\* gives its content (it throws on a file too long for a string).
SourceMarks == {"setJavaScriptEnabled", "addJavascriptInterface", "JavascriptInterfaceAnnotation",
                "loadUrl", "startsWithHttps", "innerHTML", "documentWrite"}

\* analyzeXSS, body of the loop: the vulnerabilities one file yields.
XSSFileVulnerabilities(file) ==
     (IF /\ "setJavaScriptEnabled" \in file.marks
         /\ (\/ "addJavascriptInterface" \notin file.marks
             \/ "JavascriptInterfaceAnnotation" \notin file.marks)
        THEN << [id |-> "xss-001", severity |-> "high", location |-> file.path] >>
        ELSE << >>)
  \o (IF "loadUrl" \in file.marks /\ "startsWithHttps" \notin file.marks
        THEN << [id |-> "xss-002", severity |-> "medium", location |-> file.path] >>
        ELSE << >>)
  \o (IF "innerHTML" \in file.marks \/ "documentWrite" \in file.marks
        THEN << [id |-> "xss-003", severity |-> "high", location |-> file.path] >>
        ELSE << >>)

\* analyzeXSS, the loop: a readFile that throws leaves the loop for the
\* catch block, with the vulnerabilities found so far.
RECURSIVE XSSVulnerabilities(_)
XSSVulnerabilities(files) ==
  IF files = << >> THEN << >>
  ELSE IF ~Head(files).readable THEN << >>
  ELSE XSSFileVulnerabilities(Head(files)) \o XSSVulnerabilities(Tail(files))

\* analyzeXSS: the category result it assigns for the files findFiles returns.
analyzeXSS(files) ==
  LET vs == XSSVulnerabilities(files)
  IN  [status |-> CheckStatus(vs), issueCount |-> Len(vs), details |-> "found",
       vulnerabilities |-> vs]

\* analyzeCSRF .. analyzeManualTesting: a fixed "passed" result.
StubCheck ==
  [status |-> "passed", issueCount |-> 0, details |-> "completed", vulnerabilities |-> << >>]

\* What the detector of category c assigns to analysisResults[c].
DetectorResult(c, manifest, files) ==
  CASE c = "reconnaissance" -> analyzeReconnaissance(manifest)
    [] c = "xss"            -> analyzeXSS(files)
    [] OTHER                -> StubCheck

\* The pushes with analyzeXSS ahead of analyzeReconnaissance.
PushedVulnerabilitiesXSSFirst(i, manifest, files, throwers) ==
     (IF "xss" \in throwers THEN << >> ELSE analyzeXSS(files).vulnerabilities)
  \o (IF "reconnaissance" \in throwers THEN << >>
      ELSE analyzeReconnaissance(manifest).vulnerabilities)

\* runSecurityAnalyses, the vulnerabilities pushed by the detectors from
\* registry index i on, in the order of the loop. A detector in `throwers`
\* throws before it assigns or pushes anything; the catch logs it and the
\* loop goes on.
RECURSIVE PushedVulnerabilities(_, _, _, _)
PushedVulnerabilities(i, manifest, files, throwers) ==
  IF i > Len(Registry) THEN << >>
  ELSE (IF Registry[i] \in throwers THEN << >>
        ELSE DetectorResult(Registry[i], manifest, files).vulnerabilities)
       \o PushedVulnerabilities(i + 1, manifest, files, throwers)

\* runSecurityAnalyses: the analyzer's fields after the loop over the
\* registry; each detector assigns its own category and no other.
runSecurityAnalyses(a, manifest, files, throwers) ==
  LET ran == {Registry[i] : i \in {k \in 1..Len(Registry) : Registry[k] \notin throwers}}
  IN  [a EXCEPT
         !.analysisResults = [c \in Categories |->
            IF c \in ran THEN DetectorResult(c, manifest, files) ELSE a.analysisResults[c]],
         !.vulnerabilities = a.vulnerabilities \o PushedVulnerabilities(1, manifest, files, throwers),
         !.ran = ran]

\* ------------------------------------------------------------------ score
RECURSIVE CountSeverity(_, _)
CountSeverity(vs, sev) ==
  IF vs = << >> THEN 0
  ELSE (IF Head(vs).severity = sev THEN 1 ELSE 0) + CountSeverity(Tail(vs), sev)

Max(a, b) == IF a >= b THEN a ELSE b

\* The score without its Math.max(0, ...).
SecurityScoreUnclamped(vs) ==
  100 - CountSeverity(vs, "critical") * 25 - CountSeverity(vs, "high") * 15
      - CountSeverity(vs, "medium") * 8 - CountSeverity(vs, "low") * 3

\* The score with the weights of high and low exchanged.
SecurityScoreLowHeavier(vs) ==
  Max(0, 100 - CountSeverity(vs, "critical") * 25 - CountSeverity(vs, "high") * 3
             - CountSeverity(vs, "medium") * 8 - CountSeverity(vs, "low") * 15)

\* performAnalysis: the security score computed from the vulnerability list.
SecurityScore(vs) ==
  Max(0, 100 - CountSeverity(vs, "critical") * 25 - CountSeverity(vs, "high") * 15
             - CountSeverity(vs, "medium") * 8 - CountSeverity(vs, "low") * 3)

\* ---------------------------------------------------------- uploaded files
NoManifest == [kind |-> "absent", marks |-> {}, usesPermission |-> 0]
BinaryManifest == [kind |-> "binary", marks |-> {}, usesPermission |-> 0]
TextManifest(marks, n) == [kind |-> "text", marks |-> marks, usesPermission |-> n]

SourceFile(path, ext, marks, readable) ==
  [path |-> path, ext |-> ext, marks |-> marks, readable |-> readable]

RiskySource == SourceFile("WebActivity.java", ".java", {"setJavaScriptEnabled", "loadUrl"}, TRUE)

\* An uploaded file: zip is "valid", "unopenable" (yauzl.open fails),
\* "badEntry" (yauzl reports an error on the zipfile or on openReadStream) or
\* "corruptData" (an entry's read stream emits 'error'). apkSuffix: its name
\* holds ".apk" (POST also takes a file of the APK MIME type under any name).
BrokenZips == {"unopenable", "badEntry", "corruptData"}

Upload(zip, manifest, sources, apkSuffix) ==
  [zip |-> zip, manifest |-> manifest, sources |-> sources, apkSuffix |-> apkSuffix]

Manifests ==
  {NoManifest, BinaryManifest}
    \cup {TextManifest(m, n) :
            m \in {{}, {"debuggableTrue", "allowBackupTrue", "exportedTrue"}}, n \in 0..2}

\* The uploads one job is tried on.
Uploads ==
  {Upload(z, NoManifest, << >>, TRUE) : z \in BrokenZips}
    \cup {Upload("valid", m, s, x) :
            m \in Manifests, s \in {<< >>, << RiskySource >>}, x \in BOOLEAN}

\* The uploads of concurrently running jobs.
ConcurrentUploads ==
  {Upload("valid", NoManifest, << >>, TRUE), Upload("unopenable", NoManifest, << >>, TRUE)}

\* The detectors that are made to throw: the two that read the package, and
\* the first and the last of those that report a fixed result.
Throwers == {"reconnaissance", "xss", "csrf", "manualTesting"}

\* The sets of detectors that throw in one run.
RECURSIVE SetsUpTo(_)
SetsUpTo(n) ==
  IF n = 0 THEN {{}}
  ELSE LET S == SetsUpTo(n - 1) IN S \cup {t \cup {c} : t \in S, c \in Throwers}

ThrowerSets == SetsUpTo(MaxThrows)

\* Nullable values: << >> is null, << x >> is x.
Null == << >>
Some(x) == << x >>

\* ------------------------------------------------------------------ state
VARIABLES
  clock,          \* the value Date.now() returns
  status,         \* status[j]: analysis_status of job j's record ("none": no record)
  record,         \* record[j]: the report columns of job j's record (nullable)
  pc,             \* pc[j]: where job j's background task stands
  upload,         \* upload[j]: the file job j was submitted with
  analyzer,       \* analyzer[j]: the APKAnalyzer's fields
  packageInfo,    \* packageInfo[j]: what parseManifest returned
  outcome,        \* outcome[j]: how analyzeAPK ended, with the path it returned
  pendingUpdate,  \* pendingUpdate[j]: the updateApkAnalysis call in flight
  cleanupRan,     \* cleanupRan[j]: cleanup() was called by job j's analyzer
  devMode,        \* devMode[j]: how generateDevModeAPK ended
  thrown,         \* thrown[j]: the detectors that threw in job j's run
  dirs,           \* the scratch directories on disk, by their timestamp
  fixedApksDir,   \* whether the fixed_apks directory exists
  apkFiles,       \* apkFiles[j]: which of job j's output archives exist
  keystore,       \* certs/debug.keystore: "absent", "partial", "valid", "fallback"
  keytool,        \* keytool[j]: the keytool run started by job j's signer: "idle",
                  \*   "started", "generating", "writing", "done"
  clobbered       \* a keystore that existed was written over

jobVars == << status, record, pc, upload, analyzer, packageInfo, outcome,
              pendingUpdate, cleanupRan, devMode, thrown >>
diskVars == << dirs, fixedApksDir, apkFiles >>
signerVars == << keystore, keytool, clobbered >>

NoReport ==
  [securityScore |-> Null, criticalIssues |-> 0, warningIssues |-> 0,
   vulnerabilities |-> Null, analysisResults |-> Null, fixedApkPath |-> Null,
   permissions |-> Null]

NoAnalyzer ==
  [extractedPath |-> 0, analysisResults |-> initializeAnalysisResults,
   vulnerabilities |-> << >>, ran |-> {}]

InitJobs ==
  /\ clock = 1
  /\ status = [j \in Jobs |-> "none"]
  /\ record = [j \in Jobs |-> NoReport]
  /\ pc = [j \in Jobs |-> "none"]
  /\ upload = [j \in Jobs |-> Upload("valid", NoManifest, << >>, TRUE)]
  /\ analyzer = [j \in Jobs |-> NoAnalyzer]
  /\ packageInfo = [j \in Jobs |-> NoManifest]
  /\ outcome = [j \in Jobs |-> [kind |-> "running", fixedApkPath |-> Null]]
  /\ pendingUpdate = [j \in Jobs |-> Null]
  /\ cleanupRan = [j \in Jobs |-> FALSE]
  /\ devMode = [j \in Jobs |-> "notRun"]
  /\ thrown = [j \in Jobs |-> {}]
  /\ dirs = {}
  /\ fixedApksDir \in BOOLEAN
  /\ apkFiles = [j \in Jobs |-> {}]
  /\ keystore \in {"absent", "valid", "fallback"}
  /\ keytool = [j \in Jobs |-> "idle"]
  /\ clobbered = FALSE

\* ------------------------------------------------- performAnalysis, storage
\* The catch block storing "completed".
FailedUpdateAsCompleted == [analysisStatus |-> "completed", report |-> NoReport]

\* performAnalysis's catch block: the update that stores "failed".
FailedUpdate == [analysisStatus |-> "failed", report |-> NoReport]

\* The update with warningIssues counting high and medium only.
CompletedUpdateWithoutLow(vs, results, info, path) ==
  [analysisStatus |-> "completed",
   report |->
     [securityScore   |-> Some(SecurityScore(vs)),
      criticalIssues  |-> CountSeverity(vs, "critical"),
      warningIssues   |-> CountSeverity(vs, "high") + CountSeverity(vs, "medium"),
      vulnerabilities |-> Some(vs),
      analysisResults |-> Some(results),
      fixedApkPath    |-> path,
      permissions     |-> Some(info.usesPermission)]]

\* performAnalysis after analyzeAPK returned: the score and counts, the
\* package fields, and the update it sends. With explicitArray: false xml2js
\* gives a single <uses-permission> as an object, which has no map(): the
\* TypeError lands in the catch block, which stores "failed".
CompletedUpdate(vs, results, info, path) ==
  IF info.kind = "text" /\ info.usesPermission = 1
    THEN FailedUpdate
    ELSE [analysisStatus |-> "completed",
          report |->
            [securityScore   |-> Some(SecurityScore(vs)),
             criticalIssues  |-> CountSeverity(vs, "critical"),
             warningIssues   |-> CountSeverity(vs, "high") + CountSeverity(vs, "medium")
                                   + CountSeverity(vs, "low"),
             vulnerabilities |-> Some(vs),
             analysisResults |-> Some(results),
             fixedApkPath    |-> path,
             permissions     |-> Some(info.usesPermission)]]

\* cleanup / removeDirectory: the scratch directories left on disk. A
\* removal that fails is logged and leaves the directory.
CleanupResults(extractedPath) ==
  IF extractedPath \in dirs THEN {dirs \ {extractedPath}, dirs} ELSE {dirs}

\* analyzeAPK's catch block (cleanup, rethrow) followed by performAnalysis's
\* catch block, which sends the "failed" update.
Reject(j, extractedPath) ==
  /\ \E d \in CleanupResults(extractedPath) : dirs' = d
  /\ cleanupRan' = [cleanupRan EXCEPT ![j] = TRUE]
  /\ outcome' = [outcome EXCEPT ![j] = [kind |-> "threw", fixedApkPath |-> Null]]
  /\ pendingUpdate' = [pendingUpdate EXCEPT ![j] = Some(FailedUpdate)]
  /\ pc' = [pc EXCEPT ![j] = "storing"]

\* analyzeAPK returns `path` (after cleanup when `clean`), and performAnalysis
\* goes on to its update.
Resolve(j, path, clean) ==
  /\ IF clean
       THEN /\ \E d \in CleanupResults(analyzer[j].extractedPath) : dirs' = d
            /\ cleanupRan' = [cleanupRan EXCEPT ![j] = TRUE]
       ELSE UNCHANGED << dirs, cleanupRan >>
  /\ outcome' = [outcome EXCEPT ![j] = [kind |-> "returned", fixedApkPath |-> path]]
  /\ pendingUpdate' = [pendingUpdate EXCEPT ![j] =
       Some(CompletedUpdate(analyzer[j].vulnerabilities, analyzer[j].analysisResults,
                            packageInfo[j], path))]
  /\ pc' = [pc EXCEPT ![j] = "storing"]

\* The step goes on inside analyzeAPK, to `next`.
Continue(j, next) ==
  /\ pc' = [pc EXCEPT ![j] = next]
  /\ UNCHANGED << cleanupRan, outcome, pendingUpdate >>

\* POST leaving analysisStatus to the column's default.
PostWithDefaultStatus(j, a) ==
  /\ pc[j] = "none"
  /\ status' = [status EXCEPT ![j] = "pending"]
  /\ upload' = [upload EXCEPT ![j] = a]
  /\ pc' = [pc EXCEPT ![j] = "created"]
  /\ UNCHANGED << clock, record, analyzer, packageInfo, outcome, pendingUpdate,
                  cleanupRan, devMode, thrown, diskVars, signerVars >>

\* POST: the upload is saved and the record created, with status "analyzing".
Post(j, a) ==
  /\ pc[j] = "none"
  /\ status' = [status EXCEPT ![j] = "analyzing"]
  /\ upload' = [upload EXCEPT ![j] = a]
  /\ pc' = [pc EXCEPT ![j] = "created"]
  /\ UNCHANGED << clock, record, analyzer, packageInfo, outcome, pendingUpdate,
                  cleanupRan, devMode, thrown, diskVars, signerVars >>

\* performAnalysis starts: new APKAnalyzer (the scratch path is named after
\* Date.now()), then analyzeAPK up to yauzl.open. `exists` is
\* existsSync(apkPath): the uploaded file may be gone by now ("missing").
StartAnalysis(j, exists) ==
  /\ pc[j] = "created"
  /\ analyzer' = [analyzer EXCEPT ![j] = [NoAnalyzer EXCEPT !.extractedPath = clock]]
  /\ upload' = [upload EXCEPT ![j].zip = IF exists THEN @ ELSE "missing"]
  /\ IF exists
       THEN Continue(j, "opening") /\ UNCHANGED dirs
       ELSE Reject(j, clock)
  /\ UNCHANGED << clock, status, record, packageInfo, devMode, thrown,
                  fixedApksDir, apkFiles, signerVars >>

\* extractAPK, the callback of yauzl.open: reject on error, else create the
\* scratch directory and ask for the first entry.
OpenArchive(j) ==
  /\ pc[j] = "opening"
  /\ IF upload[j].zip = "unopenable"
       THEN Reject(j, analyzer[j].extractedPath)
       ELSE /\ dirs' = dirs \cup {analyzer[j].extractedPath}
            /\ Continue(j, "extracting")
  /\ UNCHANGED << clock, status, record, upload, analyzer, packageInfo, devMode,
                  thrown, fixedApksDir, apkFiles, signerVars >>

\* extractAPK, the entries: 'end' resolves, an error of the zipfile or of
\* openReadStream rejects, and an 'error' of an entry's read stream (nothing
\* listens to it) leaves the promise pending.
FinishExtraction(j) ==
  /\ pc[j] = "extracting"
  /\ CASE upload[j].zip = "valid"       -> Continue(j, "extracted") /\ UNCHANGED dirs
       [] upload[j].zip = "corruptData" -> Continue(j, "stalled") /\ UNCHANGED dirs
       [] OTHER                         -> Reject(j, analyzer[j].extractedPath)
  /\ UNCHANGED << clock, status, record, upload, analyzer, packageInfo, devMode,
                  thrown, fixedApksDir, apkFiles, signerVars >>

\* parseManifest: { manifest: null } when the file is absent or xml2js
\* throws, else the parsed document.
ParseManifest(j) ==
  /\ pc[j] = "extracted"
  /\ packageInfo' = [packageInfo EXCEPT ![j] =
       IF upload[j].manifest.kind = "text" THEN upload[j].manifest ELSE NoManifest]
  /\ Continue(j, "parsed")
  /\ UNCHANGED << clock, status, record, upload, analyzer, devMode, thrown,
                  diskVars, signerVars >>

\* findFiles(extractedPath, extensions) over the extracted sources.
findFiles(sources, extensions) == SelectSeq(sources, LAMBDA f : f.ext \in extensions)

\* runSecurityAnalyses: every detector of the registry, in order.
RunSecurityAnalyses(j, throwers) ==
  /\ pc[j] = "parsed"
  /\ analyzer' = [analyzer EXCEPT ![j] =
       runSecurityAnalyses(analyzer[j], upload[j].manifest,
                           findFiles(upload[j].sources, {".java", ".kt", ".js", ".html"}),
                           throwers)]
  /\ thrown' = [thrown EXCEPT ![j] = throwers]
  /\ Continue(j, "analysed")
  /\ UNCHANGED << clock, status, record, upload, packageInfo, devMode, diskVars, signerVars >>

\* generateDevModeAPK up to the promise: the fixed_apks directory is created
\* when missing; a failing mkdir is caught and null returned, and analyzeAPK
\* then returns without a path (and without calling cleanup).
StartDevMode(j, mkdirOk) ==
  /\ pc[j] = "analysed"
  /\ IF fixedApksDir \/ mkdirOk
       THEN /\ fixedApksDir' = TRUE
            /\ Continue(j, "building")
            /\ UNCHANGED << dirs, devMode >>
       ELSE /\ devMode' = [devMode EXCEPT ![j] = "null"]
            /\ Resolve(j, Null, FALSE)
            /\ UNCHANGED fixedApksDir
  /\ UNCHANGED << clock, status, record, upload, analyzer, packageInfo, thrown,
                  apkFiles, signerVars >>

\* The events that settle generateDevModeAPK's promise: 'close' of the output
\* stream resolves it; an archiver 'error', an output stream 'error' and a
\* failed read of the manifest reject it.
DevModeEvents(manifest) ==
  {"close", "archiveError", "outputError"}
    \cup (IF manifest.kind = "absent" THEN {} ELSE {"manifestReadError"})

\* APKSigner's constructor -> ensureDebugKeystore: keytool is started when no
\* keystore file exists; the constructor does not wait for it.
ensureDebugKeystore(j) ==
  keytool' = [keytool EXCEPT ![j] = IF keystore = "absent" THEN "started" ELSE "idle"]

\* generateDevModeAPK's promise settles. A rejection is not caught by the
\* method's try block (the promise is returned, not awaited) and lands in
\* analyzeAPK's catch. On 'close' analyzeAPK makes a signer and calls
\* signApk, which starts zipalign.
FinishDevMode(j, ev) ==
  /\ pc[j] = "building"
  /\ ev \in DevModeEvents(upload[j].manifest)
  /\ IF ev = "close"
       THEN /\ devMode' = [devMode EXCEPT ![j] = "built"]
            /\ apkFiles' = [apkFiles EXCEPT ![j] = {"unsigned"}]
            /\ ensureDebugKeystore(j)
            /\ Continue(j, "aligning")
            /\ UNCHANGED dirs
       ELSE /\ devMode' = [devMode EXCEPT ![j] = "error"]
            /\ Reject(j, analyzer[j].extractedPath)
            /\ UNCHANGED << apkFiles, keytool >>
  /\ UNCHANGED << clock, status, record, upload, analyzer, packageInfo, thrown,
                  fixedApksDir, keystore, clobbered >>

\* signApk: unsignedApkPath.replace(".apk", "_signed.apk") and likewise
\* "_aligned.apk"; a path without ".apk" is left as it is.
signedApkPath(u) == IF u.apkSuffix THEN "signed" ELSE "unsigned"
alignedApkPath(u) == IF u.apkSuffix THEN "aligned" ELSE "unsigned"

\* signApk without its rename step.
RenameStepSkipped(files, aligned, signed) == { << files, signed >> }

\* signApk, lines 95-101: the aligned archive is renamed to the signed path
\* when that does not exist yet. The results are << files, returned path >>;
\* a rename that throws lands in the catch, which returns the unsigned path.
RenameStep(files, aligned, signed) ==
  IF aligned \in files /\ signed \notin files
    THEN { << (files \ {aligned}) \cup {signed}, signed >>, << files, "unsigned" >> }
    ELSE { << files, signed >> }

\* signApk's fallback: copyFileSync(aligned, signed), then the rename step; a
\* copy that throws lands in the catch.
CopyFallback(files, aligned, signed) ==
  RenameStep(files \cup {signed}, aligned, signed) \cup { << files, "unsigned" >> }

\* signApk returns `r` = << files, path >>; analyzeAPK cleans up and returns.
SignReturn(j, r) ==
  /\ apkFiles' = [apkFiles EXCEPT ![j] = r[1]]
  /\ Resolve(j, Some(r[2]), TRUE)

\* alignApk ends: zipalign wrote the aligned archive, or the fallback copy
\* did (`aligned`), or the copy threw. Then signApk starts jarsigner when a
\* keystore file exists, else it copies.
AlignDone(j, aligned) ==
  /\ pc[j] = "aligning"
  /\ IF ~aligned
       THEN SignReturn(j, << apkFiles[j], "unsigned" >>)
       ELSE IF keystore # "absent"
              THEN /\ apkFiles' = [apkFiles EXCEPT ![j] = @ \cup {alignedApkPath(upload[j])}]
                   /\ Continue(j, "jarsigning")
                   /\ UNCHANGED dirs
              ELSE \E r \in CopyFallback(apkFiles[j] \cup {alignedApkPath(upload[j])},
                                        alignedApkPath(upload[j]), signedApkPath(upload[j])) :
                     SignReturn(j, r)
  /\ UNCHANGED << clock, status, record, upload, analyzer, packageInfo, devMode,
                  thrown, fixedApksDir, signerVars >>

\* jarsigner ends: it signs the aligned archive in place, which takes a
\* complete keystore; when it fails signApk copies.
JarsignerDone(j, signed) ==
  /\ pc[j] = "jarsigning"
  /\ signed => keystore = "valid"
  /\ \E r \in (IF signed
                THEN RenameStep(apkFiles[j], alignedApkPath(upload[j]), signedApkPath(upload[j]))
                ELSE CopyFallback(apkFiles[j], alignedApkPath(upload[j]), signedApkPath(upload[j]))) :
       SignReturn(j, r)
  /\ UNCHANGED << clock, status, record, upload, analyzer, packageInfo, devMode,
                  thrown, fixedApksDir, signerVars >>

\* updateApkAnalysis writing analysis_status only.
ApplyUpdateStatusOnly(j) ==
  /\ pc[j] = "storing"
  /\ status' = [status EXCEPT ![j] = pendingUpdate[j][1].analysisStatus]
  /\ pendingUpdate' = [pendingUpdate EXCEPT ![j] = Null]
  /\ pc' = [pc EXCEPT ![j] = "done"]
  /\ UNCHANGED << clock, record, upload, analyzer, packageInfo, outcome, cleanupRan,
                  devMode, thrown, diskVars, signerVars >>

\* storage.updateApkAnalysis: the UPDATE reaches the record.
ApplyUpdate(j) ==
  /\ pc[j] = "storing"
  /\ status' = [status EXCEPT ![j] = pendingUpdate[j][1].analysisStatus]
  /\ record' = [record EXCEPT ![j] =
       IF pendingUpdate[j][1].analysisStatus = "completed"
         THEN pendingUpdate[j][1].report ELSE @]
  /\ pendingUpdate' = [pendingUpdate EXCEPT ![j] = Null]
  /\ pc' = [pc EXCEPT ![j] = "done"]
  /\ UNCHANGED << clock, upload, analyzer, packageInfo, outcome, cleanupRan, devMode,
                  thrown, diskVars, signerVars >>

\* generateDebugKeystore: keytool, which found no keystore file when it
\* started, has made its key pair and starts writing the file.
KeytoolWrite(j) ==
  /\ keytool[j] = "generating"
  /\ clobbered' = (clobbered \/ keystore # "absent")
  /\ keystore' = "partial"
  /\ keytool' = [keytool EXCEPT ![j] = "writing"]
  /\ UNCHANGED << clock, jobVars, diskVars >>

\* generateDebugKeystore: keytool exits with the keystore written.
KeytoolExit(j) ==
  /\ keytool[j] = "writing"
  /\ keystore' = "valid"
  /\ keytool' = [keytool EXCEPT ![j] = "done"]
  /\ UNCHANGED << clock, jobVars, diskVars, clobbered >>

\* generateDebugKeystore: keytool opens the keystore path. When `ok` (it is
\* installed and finds no file) it goes on; else it exits with an error (a
\* file it finds already holds the alias, or cannot be read) and the catch
\* block's createFallbackKeystore writes the file over (`wrote`; a write that
\* throws is logged).
KeytoolLoad(j, ok, wrote) ==
  /\ keytool[j] = "started"
  /\ ok => keystore = "absent"
  /\ IF ok
       THEN /\ keytool' = [keytool EXCEPT ![j] = "generating"]
            /\ UNCHANGED << keystore, clobbered >>
       ELSE /\ keystore' = IF wrote THEN "fallback" ELSE keystore
            /\ clobbered' = (clobbered \/ (wrote /\ keystore # "absent"))
            /\ keytool' = [keytool EXCEPT ![j] = "done"]
  /\ UNCHANGED << clock, jobVars, diskVars >>

\* Time passes.
Tick ==
  /\ clock < MaxClock
  /\ clock' = clock + 1
  /\ UNCHANGED << jobVars, diskVars, signerVars >>

\* ------------------------------------------------- extractAPK, entry by entry
MaxEntries == 2     \* entries of the archive
MaxSegments == 2    \* path segments of an entry's name

\* An entry's fileName: its segments (split on "/"), whether it starts with
\* "/", and whether it ends with "/" (a directory entry).
Segments == {"a", "b", ".."}

RECURSIVE SeqsUpTo(_, _)
SeqsUpTo(S, n) ==
  IF n = 0 THEN {<< >>}
  ELSE LET R == SeqsUpTo(S, n - 1) IN R \cup {Append(r, x) : r \in R, x \in S}

FileNames ==
  {[segments |-> g, absolute |-> b, dir |-> d] :
     g \in SeqsUpTo(Segments, MaxSegments) \ {<< >>}, b \in BOOLEAN, d \in BOOLEAN}

\* The scratch root: path.join(dirname(apkPath), "extracted_" + Date.now()),
\* under the uploads directory of the working directory.
ExtractedRoot == << "cwd", "uploads", "extracted" >>

\* path.normalize on segments: ".." removes the segment before it.
RECURSIVE Normalize(_, _)
Normalize(done, rest) ==
  IF rest = << >> THEN done
  ELSE IF Head(rest) = ".."
         THEN Normalize(IF done = << >> THEN << >> ELSE SubSeq(done, 1, Len(done) - 1), Tail(rest))
         ELSE Normalize(Append(done, Head(rest)), Tail(rest))

\* path.join(this.extractedPath, entry.fileName): the segments are put one
\* after the other (a leading "/" of the second is one more separator) and
\* the result is normalized.
OutputPath(fileName) == Normalize(<< >>, ExtractedRoot \o fileName.segments)

\* yauzl opened with decodeStrings: false, which hands every name over as it is.
ValidFileNameUnchecked(fileName) == TRUE

\* yauzl.open is called with { lazyEntries: true } only, so decodeStrings
\* keeps its default and yauzl checks every fileName before it emits 'entry'
\* (validateFileName: no absolute path, no ".." segment); a name that fails
\* is reported as an 'error' of the zipfile.
ValidFileName(fileName) ==
  /\ ~fileName.absolute
  /\ \A i \in 1..Len(fileName.segments) : fileName.segments[i] # ".."

VARIABLES
  xCount,      \* the number of entries of the archive (yauzl's entryCount)
  xLast,       \* the fileName yauzl read last, Null before the first
  xPromise,    \* extractAPK's promise: "unopened", "pending", "resolved", "rejected"
  xRead,       \* entries yauzl has read so far
  xRequests,   \* readEntry() calls yauzl has not answered yet
  xOverlap,    \* two readEntry() calls are reading the same entry header
  xBroken,     \* two readEntry() calls overlapped: yauzl's cursor is off
  xLost,       \* entries yauzl counted as read on a read from a wrong cursor
  xFaults,     \* what has gone wrong so far: "open", "name", "stream", "mkdir", "write", "read"
  xStreams,    \* the output paths of the write streams that are open
  xStalled,    \* a read stream emitted 'error': its write stream never closes
  xDisk        \* the paths extractAPK has written

extractVars ==
  << xCount, xLast, xPromise, xRead, xRequests, xOverlap, xBroken, xLost, xFaults,
     xStreams, xStalled, xDisk >>

InitExtract ==
  /\ xCount \in 0..MaxEntries
  /\ xLast = Null
  /\ xPromise = "unopened"
  /\ xRead = 0
  /\ xRequests = 0
  /\ xOverlap = FALSE
  /\ xBroken = FALSE
  /\ xLost = 0
  /\ xFaults = {}
  /\ xStreams = {}
  /\ xStalled = FALSE
  /\ xDisk = {}

\* The extraction state of a module run that is not about extractAPK's entries.
NoExtract ==
  /\ xCount = 0
  /\ xLast = Null
  /\ xPromise = "unopened"
  /\ xRead = 0
  /\ xRequests = 0
  /\ xOverlap = FALSE
  /\ xBroken = FALSE
  /\ xLost = 0
  /\ xFaults = {}
  /\ xStreams = {}
  /\ xStalled = FALSE
  /\ xDisk = {}

\* reject(err) / resolve(): a promise settles once.
Settle(how) == IF xPromise = "pending" THEN how ELSE xPromise

\* The callback of yauzl.open: reject on error, else the first readEntry().
XOpen(err) ==
  /\ xPromise = "unopened"
  /\ xPromise' = IF err THEN "rejected" ELSE "pending"
  /\ xRequests' = IF err THEN 0 ELSE 1
  /\ xFaults' = IF err THEN xFaults \cup {"open"} ELSE xFaults
  /\ UNCHANGED << xCount, xLast, xRead, xOverlap, xBroken, xLost, xStreams,
                  xStalled, xDisk >>

\* yauzl answers a readEntry() with 'end' when its count of entries read
\* equals the archive's count (a read that is on its way is answered first).
XEnd ==
  /\ xRequests > 0
  /\ xRead = xCount
  /\ ~xOverlap
  /\ xRequests' = xRequests - 1
  /\ xPromise' = Settle("resolved")
  /\ UNCHANGED << xCount, xLast, xRead, xOverlap, xBroken, xLost, xFaults,
                  xStreams, xStalled, xDisk >>

\* What can go wrong in the handler of the entry named `fileName`: the
\* handler of a directory entry opens nothing, and an entry yauzl turns down
\* has no handler run.
Failures(fileName) ==
  IF ValidFileName(fileName) /\ ~fileName.dir THEN {"no", "open", "mkdir"} ELSE {"no"}

\* yauzl answers a readEntry() with an entry whose name is `fileName` (any
\* name: the archive is the uploader's). `fails` is what goes wrong in the
\* handler: "no" (nothing), "open" (openReadStream gives an error) or "mkdir"
\* (mkdirSync or createWriteStream throws). With the cursor in place this is
\* the next entry of the archive; the first of two overlapping reads still
\* is, and it leaves the cursor off for its twin. With the cursor off the
\* bytes read are not the next entry's: yauzl counts one more entry read and
\* the entry whose turn it was is never emitted.
XEntry(fileName, fails) ==
  /\ xRequests > 0
  /\ IF xBroken THEN xRead <= xCount ELSE xRead < xCount
  /\ xRead' = xRead + 1
  /\ xLast' = Some(fileName)
  /\ xLost' = IF xBroken THEN xLost + 1 ELSE xLost
  /\ xBroken' = (xBroken \/ xOverlap)
  /\ xOverlap' = (xOverlap /\ ~xBroken)
  /\ IF ~ValidFileName(fileName)
       THEN \* 'error' of the zipfile: reject; yauzl emits nothing more
            /\ xPromise' = Settle("rejected")
            /\ xRequests' = 0
            /\ xFaults' = xFaults \cup {"name"}
            /\ UNCHANGED xStreams
       ELSE IF fileName.dir
         THEN \* a directory entry: readEntry() at once
              UNCHANGED << xPromise, xRequests, xStreams, xFaults >>
         ELSE CASE fails = "open"  -> /\ xPromise' = Settle("rejected")
                                      /\ xRequests' = xRequests - 1
                                      /\ xFaults' = xFaults \cup {"stream"}
                                      /\ UNCHANGED xStreams
                [] fails = "mkdir" -> /\ xFaults' = xFaults \cup {"mkdir"}
                                      /\ UNCHANGED << xPromise, xRequests, xStreams >>
                [] OTHER           -> /\ xStreams' = xStreams \cup {OutputPath(fileName)}
                                      /\ xRequests' = xRequests - 1
                                      /\ UNCHANGED << xPromise, xFaults >>
  /\ UNCHANGED << xCount, xStalled, xDisk >>

\* yauzl answers a readEntry() made with the cursor off with 'error' (the
\* bytes there are no entry header, or hold no valid name): reject.
XGarbled ==
  /\ xRequests > 0
  /\ xBroken
  /\ xPromise' = Settle("rejected")
  /\ xRequests' = 0
  /\ xOverlap' = FALSE
  /\ UNCHANGED << xCount, xLast, xRead, xBroken, xLost, xFaults, xStreams,
                  xStalled, xDisk >>

\* The write stream of `path` emits 'close' with the entry written: readEntry().
XWriteClose(path) ==
  /\ path \in xStreams
  /\ xStreams' = xStreams \ {path}
  /\ xDisk' = xDisk \cup {path}
  /\ xRequests' = xRequests + 1
  /\ xBroken' = (xBroken \/ (xRequests > 0 /\ xRead < xCount))
  /\ UNCHANGED << xCount, xLast, xPromise, xRead, xOverlap, xLost, xFaults,
                  xStalled >>

\* The write stream of `path` emits 'error' and then 'close': both handlers
\* call readEntry(), one right after the other, and with entries left the
\* two reads start at the same cursor.
XWriteError(path) ==
  /\ path \in xStreams
  /\ xStreams' = xStreams \ {path}
  /\ xRequests' = xRequests + 2
  /\ xOverlap' = (xOverlap \/ (~xBroken /\ xRead < xCount))
  /\ xFaults' = xFaults \cup {"write"}
  /\ UNCHANGED << xCount, xLast, xPromise, xRead, xBroken, xLost, xStalled, xDisk >>

\* The read stream piped into `path` emits 'error': nothing listens, the
\* write stream is never ended and readEntry() is not called for this entry.
XReadError(path) ==
  /\ path \in xStreams
  /\ xStreams' = xStreams \ {path}
  /\ xStalled' = TRUE
  /\ xFaults' = xFaults \cup {"read"}
  /\ UNCHANGED << xCount, xLast, xPromise, xRead, xRequests, xOverlap, xBroken, xLost,
                  xDisk >>

\* ------------------------------------------------- generateDevModeAPK, file by file
\* A file of the extracted tree: the directories above it, relative to the
\* scratch root, and its name, split at its last dot.
File(dir, base, ext) == [dir |-> dir, base |-> base, ext |-> ext]

ManifestFile == File(<< >>, "AndroidManifest", ".xml")
NetworkSecurityConfigFile == File(<< "res", "xml" >>, "network_security_config", ".xml")

\* The files an extracted tree is made of.
TreeFiles ==
  { ManifestFile,
    File(<< >>, "classes", ".dex"),
    File(<< >>, "Main", ".java"),
    File(<< "smali" >>, "A", ".smali"),
    File(<< "src" >>, "B", ".kt"),
    File(<< "lib" >>, "AndroidManifest", ".xml"),
    NetworkSecurityConfigFile }

\* item.endsWith(ext), for an extension that starts at the name's last dot.
EndsWith(file, ext) == file.ext = ext

SourceExtensions == {".java", ".kt", ".smali"}

\* findFiles(this.extractedPath, [".java", ".kt", ".smali"])
SourceFiles(tree) == {f \in tree : \E ext \in SourceExtensions : EndsWith(f, ext)}

\* The test of addRemainingFiles on one file: no source extension, and the
\* item is not named AndroidManifest.xml (in whatever directory it is).
Remaining(f) ==
  /\ ~EndsWith(f, ".java")
  /\ ~EndsWith(f, ".kt")
  /\ ~EndsWith(f, ".smali")
  /\ ~(f.base = "AndroidManifest" /\ f.ext = ".xml")

Entry(file, content) == [name |-> file, content |-> content]

\* The entries a directory walk appends, one archive.file per file.
RECURSIVE FileEntries(_)
FileEntries(files) ==
  IF files = {} THEN << >>
  ELSE LET f == CHOOSE x \in files : TRUE
       IN << Entry(f, "original") >> \o FileEntries(files \ {f})

addRemainingFiles(tree) == FileEntries({f \in tree : Remaining(f)})

VARIABLES
  dTree,      \* the files under the scratch root
  dPc,        \* where generateDevModeAPK is: "start", "reading", "sources",
              \*   "finalized", "resolved", "rejected"
  dQueue,     \* the source files processSourceFilesForDevMode has not reached
  dArchive    \* the entries appended to the archive, in order

devModeVars == << dTree, dPc, dQueue, dArchive >>

InitDevMode ==
  /\ dTree \in SUBSET TreeFiles
  /\ dPc = "start"
  /\ dQueue = {}
  /\ dArchive = << >>

\* The rebuild state of a module run that is not about the archive's entries.
NoDevMode ==
  /\ dTree = {}
  /\ dPc = "start"
  /\ dQueue = {}
  /\ dArchive = << >>

\* The promise executor: with a manifest at the root, start reading it; with
\* none, add the remaining files and finalize.
DStart ==
  /\ dPc = "start"
  /\ IF ManifestFile \in dTree
       THEN /\ dPc' = "reading"
            /\ UNCHANGED dArchive
       ELSE /\ dArchive' = dArchive \o addRemainingFiles(dTree)
            /\ dPc' = "finalized"
  /\ UNCHANGED << dTree, dQueue >>

\* readFile(manifestPath) settles: append the enhanced manifest and the
\* network security config, then find the source files; or reject.
DManifestRead(ok) ==
  /\ dPc = "reading"
  /\ IF ok
       THEN /\ dArchive' = dArchive \o << Entry(ManifestFile, "enhanced"),
                                          Entry(NetworkSecurityConfigFile, "generated") >>
            /\ dQueue' = SourceFiles(dTree)
            /\ dPc' = "sources"
       ELSE /\ dPc' = "rejected"
            /\ UNCHANGED << dArchive, dQueue >>
  /\ UNCHANGED dTree

\* One turn of the loop with a catch block that only logs.
DProcessSourceDropping(f, ok) ==
  /\ dPc = "sources"
  /\ f \in dQueue
  /\ dArchive' = IF ok THEN Append(dArchive, Entry(f, "modified")) ELSE dArchive
  /\ dQueue' = dQueue \ {f}
  /\ UNCHANGED << dTree, dPc >>

\* One turn of the loop of processSourceFilesForDevMode: the file is appended
\* modified, or as it is when reading or transforming it threw.
DProcessSource(f, ok) ==
  /\ dPc = "sources"
  /\ f \in dQueue
  /\ dArchive' = Append(dArchive, Entry(f, IF ok THEN "modified" ELSE "original"))
  /\ dQueue' = dQueue \ {f}
  /\ UNCHANGED << dTree, dPc >>

\* processSourceFilesForDevMode resolved: add the remaining files, finalize.
DAddRemaining ==
  /\ dPc = "sources"
  /\ dQueue = {}
  /\ dArchive' = dArchive \o addRemainingFiles(dTree)
  /\ dPc' = "finalized"
  /\ UNCHANGED << dTree, dQueue >>

\* The output stream closes (resolve) or the archive or the stream emits
\* 'error' (reject).
DSettle(ev) ==
  /\ dPc = "finalized"
  /\ dPc' = IF ev = "close" THEN "resolved" ELSE "rejected"
  /\ UNCHANGED << dTree, dQueue, dArchive >>

\* ------------------------------------------- detectors and score, on their own
MaxFiles == 2       \* source files of the extracted tree

\* The extensions analyzeXSS asks findFiles for.
XSSExtensions == {".java", ".kt", ".js", ".html"}

\* The contents a source file of the tree is tried with.
FileKinds ==
  { [ext |-> ".java",  marks |-> {"setJavaScriptEnabled"}, readable |-> TRUE],
    [ext |-> ".java",  marks |-> {"setJavaScriptEnabled", "addJavascriptInterface",
                                  "JavascriptInterfaceAnnotation"}, readable |-> TRUE],
    [ext |-> ".kt",    marks |-> {"loadUrl"}, readable |-> TRUE],
    [ext |-> ".html",  marks |-> {"innerHTML"}, readable |-> TRUE],
    [ext |-> ".js",    marks |-> {"setJavaScriptEnabled", "loadUrl", "documentWrite"},
                       readable |-> TRUE],
    [ext |-> ".smali", marks |-> {"setJavaScriptEnabled"}, readable |-> TRUE],
    [ext |-> ".html",  marks |-> {}, readable |-> FALSE] }

\* The paths of the files, in the order findFiles walks them.
PathNames == << "first", "second", "third" >>

Placed(kinds) ==
  [i \in 1..Len(kinds) |->
     SourceFile(PathNames[i], kinds[i].ext, kinds[i].marks, kinds[i].readable)]

\* The trees: up to MaxFiles files of the kinds above, and one .java file
\* with every combination of the substrings analyzeXSS looks for.
SourceTrees ==
  {Placed(k) : k \in SeqsUpTo(FileKinds, MaxFiles)}
    \cup {<< SourceFile(PathNames[1], ".java", m, TRUE) >> : m \in SUBSET SourceMarks}

\* The manifests: none, or a text with any of the substrings
\* analyzeReconnaissance looks for.
AnalysisManifests == {NoManifest} \cup {TextManifest(m, 0) : m \in SUBSET ManifestMarks}

VARIABLES
  aManifest,   \* the extracted AndroidManifest.xml
  aSources,    \* the source files of the extracted tree
  aPc,         \* "start", "analysed" (runSecurityAnalyses returned), "scored"
  aAnalyzer,   \* the APKAnalyzer's fields
  aUpdate      \* what performAnalysis sends to storage, Null before

analyzeVars == << aManifest, aSources, aPc, aAnalyzer, aUpdate >>

InitAnalyze ==
  /\ aManifest \in AnalysisManifests
  /\ aSources \in SourceTrees
  /\ aPc = "start"
  /\ aAnalyzer = NoAnalyzer
  /\ aUpdate = Null

\* The detector state of a module run that is not about the detectors alone.
NoAnalyze ==
  /\ aManifest = NoManifest
  /\ aSources = << >>
  /\ aPc = "start"
  /\ aAnalyzer = NoAnalyzer
  /\ aUpdate = Null

\* runSecurityAnalyses on the tree.
ADetect(throwers) ==
  /\ aPc = "start"
  /\ aAnalyzer' = runSecurityAnalyses(aAnalyzer, aManifest,
                                      findFiles(aSources, XSSExtensions), throwers)
  /\ aPc' = "analysed"
  /\ UNCHANGED << aManifest, aSources, aUpdate >>

\* performAnalysis on what analyzeAPK returned (here without a rebuilt archive).
AScore ==
  /\ aPc = "analysed"
  /\ aUpdate' = Some(CompletedUpdate(aAnalyzer.vulnerabilities, aAnalyzer.analysisResults,
                                     aManifest, Null))
  /\ aPc' = "scored"
  /\ UNCHANGED << aManifest, aSources, aAnalyzer >>

\* --------------------------------------------- the score, on any list
MaxVulns == 5       \* vulnerabilities of a list handed to performAnalysis

Vulnerability(id, severity, location) ==
  [id |-> id, severity |-> severity, location |-> location]

\* The lists analyzeAPK can hand to performAnalysis, by severity.
VulnerabilityLists ==
  SeqsUpTo({Vulnerability("found", sev, "file") : sev \in Severities}, MaxVulns)

\* The analyzer after a run in which one detector found the list vs: the
\* category result it assigns and the push onto this.vulnerabilities.
DetectorOutput(vs) ==
  [NoAnalyzer EXCEPT
     !.analysisResults = [initializeAnalysisResults EXCEPT
        !["reconnaissance"] = [status |-> CheckStatus(vs), issueCount |-> Len(vs),
                               details |-> "found", vulnerabilities |-> vs]],
     !.vulnerabilities = vs,
     !.ran = Categories]

\* performAnalysis on every list of VulnerabilityLists, and the whole run on
\* every manifest of a tree without source files.
InitScore ==
  /\ aSources = << >>
  /\ aUpdate = Null
  /\ \/ /\ aPc = "analysed"
        /\ aManifest = NoManifest
        /\ aAnalyzer \in {DetectorOutput(vs) : vs \in VulnerabilityLists}
     \/ /\ aPc = "start"
        /\ aManifest \in AnalysisManifests
        /\ aAnalyzer = NoAnalyzer

\* ------------------------------------------------- enhanceManifestForDevMode
MaxDeclared == 1    \* uses-permission elements of the manifest that is read

\* The manifest text, as far as the method looks at it. application: what
\* the pattern <application([^>]*)> finds first: nothing ("none"), an open
\* tag ("open"), an empty-element tag, whose "/" the pattern takes for part
\* of the attributes ("selfClosing"), or a tag the method has written its text
\* into after that "/" ("malformed"). attributes: the android: attributes
\* inside that tag, in order, each with its value and the quotes around it.
\* elsewhere: the attribute names whose text android:<name>= stands outside
\* that tag (in a comment, on another element). closed: the text holds
\* </manifest>. declared: the names of the uses-permission elements, in
\* order. mentioned: the permission names that stand in the text elsewhere.
AttributeNames == {"debuggable", "allowBackup", "networkSecurityConfig"}

Attribute(name, value, quote) == [name |-> name, value |-> value, quote |-> quote]

testPermissions ==
  << "android.permission.WRITE_EXTERNAL_STORAGE",
     "android.permission.READ_EXTERNAL_STORAGE",
     "android.permission.INTERNET",
     "android.permission.ACCESS_NETWORK_STATE",
     "android.permission.ACCESS_WIFI_STATE",
     "com.android.vending.BILLING" >>

\* modifiedManifest.includes("android:<name>=")
IncludesAttribute(doc, name) ==
  \/ name \in doc.elsewhere
  \/ \E i \in 1..Len(doc.attributes) : doc.attributes[i].name = name

\* replace(/<application([^>]*)>/, '<application$1 android:<name>="<value>">'):
\* the text is put before the ">" of the first match, after everything the
\* group has taken in.
InsertAttribute(doc, name, value) ==
  IF doc.application = "none" THEN doc
  ELSE [doc EXCEPT
          !.attributes = Append(@, Attribute(name, value, "double")),
          !.application = IF @ = "selfClosing" THEN "malformed" ELSE @]

\* replace(/android:<name>="false"/g, 'android:<name>="true"')
FlipAttribute(doc, name) ==
  [doc EXCEPT !.attributes =
     [i \in 1..Len(@) |->
        IF @[i].name = name /\ @[i].value = "false" /\ @[i].quote = "double"
          THEN [@[i] EXCEPT !.value = "true"] ELSE @[i]]]

\* The two flags: inserted when the text has no android:<name>=, else flipped.
ForceTrue(doc, name) ==
  IF ~IncludesAttribute(doc, name) THEN InsertAttribute(doc, name, "true")
  ELSE FlipAttribute(doc, name)

AddNetworkSecurityConfig(doc) ==
  IF ~IncludesAttribute(doc, "networkSecurityConfig")
    THEN InsertAttribute(doc, "networkSecurityConfig", "@xml/network_security_config")
    ELSE doc

\* modifiedManifest.includes(permission)
IncludesPermission(doc, permission) ==
  \/ permission \in doc.mentioned
  \/ \E i \in 1..Len(doc.declared) : doc.declared[i] = permission

\* The forEach body with no includes() test.
AddTestPermissionUnchecked(doc, permission) ==
  IF doc.closed THEN [doc EXCEPT !.declared = Append(@, permission)] ELSE doc

\* The forEach body: a uses-permission line is put before </manifest> when
\* the text does not hold the permission's name.
AddTestPermission(doc, permission) ==
  IF ~IncludesPermission(doc, permission) /\ doc.closed
    THEN [doc EXCEPT !.declared = Append(@, permission)]
    ELSE doc

RECURSIVE AddTestPermissions(_, _)
AddTestPermissions(doc, i) ==
  IF i > Len(testPermissions) THEN doc
  ELSE AddTestPermissions(AddTestPermission(doc, testPermissions[i]), i + 1)

enhanceManifestForDevMode(doc) ==
  AddTestPermissions(
    AddNetworkSecurityConfig(ForceTrue(ForceTrue(doc, "debuggable"), "allowBackup")), 1)

\* The manifests the method is tried on.
FlagSettings ==
  {<< >>} \cup {<< [value |-> v, quote |-> q] >> :
                  v \in {"true", "false"}, q \in {"double", "single"}}

Flagged(name, setting) ==
  IF setting = << >> THEN << >>
  ELSE << Attribute(name, setting[1].value, setting[1].quote) >>

ApplicationTags ==
  {[application |-> "none", attributes |-> << >>]}
    \cup {[application |-> t,
           attributes |-> Flagged("debuggable", d) \o Flagged("allowBackup", b)
                            \o (IF n THEN << Attribute("networkSecurityConfig", "@xml/own", "double") >>
                                ELSE << >>)] :
            t \in {"open", "selfClosing"}, d \in FlagSettings, b \in FlagSettings,
            n \in BOOLEAN}

DeclaredPermissions ==
  SeqsUpTo({"android.permission.INTERNET", "android.permission.CAMERA"}, MaxDeclared)

ManifestTexts ==
  {[application |-> tag.application, attributes |-> tag.attributes, elsewhere |-> e,
    closed |-> c, declared |-> d, mentioned |-> m] :
     tag \in ApplicationTags, e \in {{}, {"debuggable"}}, c \in BOOLEAN,
     d \in DeclaredPermissions, m \in {{}, {"com.android.vending.BILLING"}}}

VARIABLES
  mInput,    \* the manifest text read from the extracted tree
  mText,     \* the text the method returned last (the input before the first call)
  mCalls     \* how often the method was applied: 0, 1, 2

manifestVars == << mInput, mText, mCalls >>

InitEnhance ==
  /\ mInput \in ManifestTexts
  /\ mText = mInput
  /\ mCalls = 0

\* The manifest state of a module run that is not about the manifest text.
NoEnhance ==
  /\ mInput = [application |-> "none", attributes |-> << >>, elsewhere |-> {},
               closed |-> FALSE, declared |-> << >>, mentioned |-> {}]
  /\ mText = mInput
  /\ mCalls = 0

\* generateDevModeAPK calls the method on the text it read; the second call
\* is the method applied to its own output.
MEnhance ==
  /\ mCalls < 2
  /\ mText' = enhanceManifestForDevMode(mText)
  /\ mCalls' = mCalls + 1
  /\ UNCHANGED mInput

\* ------------------------------------------------- specifications
lifecycleVars == << clock, jobVars, diskVars, signerVars >>

vars == << lifecycleVars, extractVars, devModeVars, analyzeVars, manifestVars >>

\* The steps of a job leave the entry-level and file-level state alone.
ComponentsIdle == UNCHANGED << extractVars, devModeVars, analyzeVars, manifestVars >>

\* One job, every upload and every failure of its steps.
JobNext(j, uploads, throwerSets) ==
  \/ \E a \in uploads : Post(j, a) /\ ComponentsIdle
  \/ \E exists \in BOOLEAN : StartAnalysis(j, exists) /\ ComponentsIdle
  \/ OpenArchive(j) /\ ComponentsIdle
  \/ FinishExtraction(j) /\ ComponentsIdle
  \/ ParseManifest(j) /\ ComponentsIdle
  \/ \E t \in throwerSets : RunSecurityAnalyses(j, t) /\ ComponentsIdle
  \/ \E mkdirOk \in BOOLEAN : StartDevMode(j, mkdirOk) /\ ComponentsIdle
  \/ \E ev \in {"close", "archiveError", "outputError", "manifestReadError"} :
       FinishDevMode(j, ev) /\ ComponentsIdle
  \/ \E aligned \in BOOLEAN : AlignDone(j, aligned) /\ ComponentsIdle
  \/ \E signed \in BOOLEAN : JarsignerDone(j, signed) /\ ComponentsIdle
  \/ ApplyUpdate(j) /\ ComponentsIdle
  \/ KeytoolWrite(j) /\ ComponentsIdle
  \/ KeytoolExit(j) /\ ComponentsIdle
  \/ \E ok, wrote \in BOOLEAN : KeytoolLoad(j, ok, wrote) /\ ComponentsIdle

Init == InitJobs /\ NoExtract /\ NoDevMode /\ NoAnalyze /\ NoEnhance

Next == JobNext(1, Uploads, ThrowerSets)

Spec == Init /\ [][Next]_vars

NextConcurrent ==
  \/ \E j \in Jobs : JobNext(j, ConcurrentUploads, {{}})
  \/ Tick /\ ComponentsIdle

SpecConcurrent == Init /\ [][NextConcurrent]_vars

\* No job is submitted while a component is followed on its own.
JobsIdle == UNCHANGED lifecycleVars

NoJobs == InitJobs /\ fixedApksDir /\ keystore = "valid"

\* extractAPK on every archive of up to MaxEntries entries.
InitExtraction == InitExtract /\ NoJobs /\ NoDevMode /\ NoAnalyze /\ NoEnhance

NextExtract ==
  \/ \E err \in BOOLEAN : XOpen(err) /\ JobsIdle /\ UNCHANGED << devModeVars, analyzeVars, manifestVars >>
  \/ XEnd /\ JobsIdle /\ UNCHANGED << devModeVars, analyzeVars, manifestVars >>
  \/ \E fileName \in FileNames : \E fails \in Failures(fileName) :
       XEntry(fileName, fails) /\ JobsIdle /\ UNCHANGED << devModeVars, analyzeVars, manifestVars >>
  \/ XGarbled /\ JobsIdle /\ UNCHANGED << devModeVars, analyzeVars, manifestVars >>
  \/ \E path \in xStreams : XWriteClose(path) /\ JobsIdle /\ UNCHANGED << devModeVars, analyzeVars, manifestVars >>
  \/ \E path \in xStreams : XWriteError(path) /\ JobsIdle /\ UNCHANGED << devModeVars, analyzeVars, manifestVars >>
  \/ \E path \in xStreams : XReadError(path) /\ JobsIdle /\ UNCHANGED << devModeVars, analyzeVars, manifestVars >>

SpecExtract == InitExtraction /\ [][NextExtract]_vars

\* The same, with the event loop running every callback that is ready.
LiveExtract == InitExtraction /\ [][NextExtract]_vars /\ WF_vars(NextExtract)

\* generateDevModeAPK on every tree made of TreeFiles.
InitRebuild == InitDevMode /\ NoJobs /\ NoExtract /\ NoAnalyze /\ NoEnhance

NextDevMode ==
  \/ DStart /\ JobsIdle /\ UNCHANGED << extractVars, analyzeVars, manifestVars >>
  \/ \E ok \in BOOLEAN : DManifestRead(ok) /\ JobsIdle /\ UNCHANGED << extractVars, analyzeVars, manifestVars >>
  \/ \E f \in dQueue, ok \in BOOLEAN : DProcessSource(f, ok) /\ JobsIdle /\ UNCHANGED << extractVars, analyzeVars, manifestVars >>
  \/ DAddRemaining /\ JobsIdle /\ UNCHANGED << extractVars, analyzeVars, manifestVars >>
  \/ \E ev \in {"close", "archiveError", "outputError"} :
       DSettle(ev) /\ JobsIdle /\ UNCHANGED << extractVars, analyzeVars, manifestVars >>

SpecDevMode == InitRebuild /\ [][NextDevMode]_vars

\* The detectors and the score on every tree of SourceTrees.
InitAnalysis == InitAnalyze /\ NoJobs /\ NoExtract /\ NoDevMode /\ NoEnhance

NextAnalyze ==
  \/ \E t \in ThrowerSets : ADetect(t) /\ JobsIdle /\ UNCHANGED << extractVars, devModeVars, manifestVars >>
  \/ AScore /\ JobsIdle /\ UNCHANGED << extractVars, devModeVars, manifestVars >>

SpecAnalyze == InitAnalysis /\ [][NextAnalyze]_vars

InitScoring == InitScore /\ NoJobs /\ NoExtract /\ NoDevMode /\ NoEnhance

SpecScore == InitScoring /\ [][NextAnalyze]_vars

\* enhanceManifestForDevMode on every text of ManifestTexts, and on its output.
InitManifest == InitEnhance /\ NoJobs /\ NoExtract /\ NoDevMode /\ NoAnalyze

NextManifest ==
  MEnhance /\ JobsIdle /\ UNCHANGED << extractVars, devModeVars, analyzeVars >>

SpecManifest == InitManifest /\ [][NextManifest]_vars

\* One job on an upload whose entries extract, fail to open, or hold corrupt
\* data; the event loop runs every callback that is ready.
LiveUploads ==
  {Upload(z, NoManifest, << >>, TRUE) : z \in {"valid", "unopenable", "corruptData"}}

NextLive == JobNext(1, LiveUploads, {{}})

LiveSpec == Init /\ [][NextLive]_vars /\ WF_vars(NextLive)

\* ------------------------------------------------------------------ claims
Terminal == {"completed", "failed"}
Exited(j) == outcome[j].kind # "running"

\* C1: cleanup has run on every exit path of analyzeAPK: return with an
\* artifact, return without one, and every throw.
C1_CleanupOnEveryExit == \A j \in Jobs : Exited(j) => cleanupRan[j]

\* C2: when building the dev-mode archive fails, analyzeAPK still returns,
\* with no artifact path, and the job ends completed, not failed.
C2_DevModeFailureAbsorbed ==
  \A j \in Jobs :
    devMode[j] \in {"null", "error"} =>
      /\ outcome[j].kind # "threw"
      /\ Exited(j) => outcome[j].fixedApkPath = Null
      /\ status[j] \in Terminal => status[j] = "completed"

\* C3: every submitted job eventually reaches completed or failed.
C3_EveryJobTerminates ==
  \A j \in Jobs : (status[j] = "analyzing") ~> (status[j] \in Terminal)

\* C4 as claimed: a record is created pending and its status only moves
\* pending -> analyzing -> completed | failed.
C4_PendingFirst ==
  [][\A j \in Jobs :
       status'[j] # status[j] =>
         << status[j], status'[j] >> \in
           { << "none", "pending" >>, << "pending", "analyzing" >>,
             << "analyzing", "completed" >>, << "analyzing", "failed" >> }]_vars

\* C4, amended: a record is created analyzing and its status only moves
\* analyzing -> completed | failed; a terminal status never changes.
C4_StatusTransitions ==
  [][\A j \in Jobs :
       status'[j] # status[j] =>
         << status[j], status'[j] >> \in
           { << "none", "analyzing" >>,
             << "analyzing", "completed" >>, << "analyzing", "failed" >> }]_vars

C4_Witness ==
  /\ status[1] = "completed"
  /\ pc[1] = "done"

\* C5: when a detector throws, every other detector of the registry still
\* runs, the thrower's category keeps passed / 0 issues, and the job's
\* terminal status is completed.
C5_DetectorFailureAbsorbed ==
  \A j \in Jobs :
    (thrown[j] # {} /\ pc[j] \notin {"none", "created", "opening", "extracting",
                                     "stalled", "extracted", "parsed"}) =>
      /\ analyzer[j].ran = Categories \ thrown[j]
      /\ \A c \in thrown[j] :
           /\ analyzer[j].analysisResults[c].status = "passed"
           /\ analyzer[j].analysisResults[c].issueCount = 0
      /\ status[j] \in Terminal => status[j] = "completed"

\* A path lies inside the scratch root.
InsideRoot(path) ==
  /\ Len(path) > Len(ExtractedRoot)
  /\ SubSeq(path, 1, Len(ExtractedRoot)) = ExtractedRoot

\* C6: every path extractAPK opens for writing or has written lies inside
\* the scratch root, whatever the names of the archive's entries are.
C6_NoPathOutsideRoot ==
  \A path \in xStreams \cup xDisk : InsideRoot(path)

\* An archive with an entry whose joined path leaves the root was extracted
\* up to that entry: the entries before it are on disk, the call rejected.
C6_Witness ==
  /\ xLast # Null
  /\ ~InsideRoot(OutputPath(xLast[1]))
  /\ xDisk # {}
  /\ xPromise = "rejected"

\* C7: with no AndroidManifest.xml at the root of the extracted tree, the
\* finalized archive holds every file of the tree that is not named
\* AndroidManifest.xml, source files included, and the generated
\* res/xml/network_security_config.xml.
C7_NoManifestArchiveComplete ==
  (dPc \in {"finalized", "resolved"} /\ ManifestFile \notin dTree) =>
    /\ \A f \in dTree :
         ~(f.base = "AndroidManifest" /\ f.ext = ".xml") =>
           \E i \in 1..Len(dArchive) : dArchive[i].name = f
    /\ \E i \in 1..Len(dArchive) :
         dArchive[i] = Entry(NetworkSecurityConfigFile, "generated")

\* The number of vulnerabilities of severity sev in the list vs.
NumberOf(vs, sev) == Cardinality({i \in 1..Len(vs) : vs[i].severity = sev})

\* 100 minus the weight of every vulnerability of vs.
Penalized(vs) ==
  100 - 25 * NumberOf(vs, "critical") - 15 * NumberOf(vs, "high")
      - 8 * NumberOf(vs, "medium") - 3 * NumberOf(vs, "low")

Clamped(n) == IF n < 0 THEN 0 ELSE IF n > 100 THEN 100 ELSE n

\* The update performAnalysis sent is the completed one.
Scored == aPc = "scored" /\ aUpdate[1].analysisStatus = "completed"

\* C11: the stored score is 100 minus 25 / 15 / 8 / 3 per critical / high /
\* medium / low vulnerability of the stored list, clamped to [0, 100]; with
\* no vulnerability every category status is passed and the score is 100.
C11_ScoreFormula ==
  Scored =>
    LET r == aUpdate[1].report
        vs == r.vulnerabilities[1]
    IN  /\ r.securityScore = Some(Clamped(Penalized(vs)))
        /\ vs = << >> =>
             /\ r.securityScore = Some(100)
             /\ \A c \in Categories : r.analysisResults[1][c].status = "passed"

\* A list whose weights sum to more than 100 was scored: the clamp acts.
C11_Witness ==
  /\ Scored
  /\ Penalized(aUpdate[1].report.vulnerabilities[1]) < 0
  /\ aUpdate[1].report.securityScore = Some(0)

\* critical > high > medium > low, as ranks.
Rank(sev) ==
  CASE sev = "critical" -> 4 [] sev = "high" -> 3 [] sev = "medium" -> 2 [] OTHER -> 1

\* C12: the score never rises when a vulnerability is added to the list, nor
\* when one of its vulnerabilities is replaced by one of equal or higher
\* severity.
C12_ScoreMonotone ==
  Scored =>
    LET vs == aUpdate[1].report.vulnerabilities[1]
        score == aUpdate[1].report.securityScore[1]
    IN  /\ score = SecurityScore(vs)
        /\ \A sev \in Severities :
             SecurityScore(Append(vs, Vulnerability("added", sev, "file"))) <= score
        /\ \A i \in 1..Len(vs) : \A sev \in Severities :
             Rank(sev) >= Rank(vs[i].severity) =>
               SecurityScore([vs EXCEPT ![i] = Vulnerability("replaced", sev, "file")]) <= score

\* A list with a low vulnerability, which can be replaced by a higher one, was
\* scored above 0.
C12_Witness ==
  /\ Scored
  /\ NumberOf(aUpdate[1].report.vulnerabilities[1], "low") > 0
  /\ aUpdate[1].report.securityScore[1] > 0

\* C15: criticalIssues counts the critical vulnerabilities of the stored list
\* and warningIssues the high, medium and low ones; together they count the
\* whole list.
C15_IssueCounts ==
  Scored =>
    LET r == aUpdate[1].report
        vs == r.vulnerabilities[1]
    IN  /\ r.criticalIssues = NumberOf(vs, "critical")
        /\ r.warningIssues = NumberOf(vs, "high") + NumberOf(vs, "medium") + NumberOf(vs, "low")
        /\ r.criticalIssues + r.warningIssues = Len(vs)

\* A list with critical and with other vulnerabilities was counted.
C15_Witness ==
  /\ Scored
  /\ aUpdate[1].report.criticalIssues > 0
  /\ aUpdate[1].report.warningIssues > 1

\* runSecurityAnalyses has returned.
Analysed == aPc \in {"analysed", "scored"}

\* C13: every category result has status critical exactly when one of its
\* vulnerabilities is critical or high, else warning exactly when its issue
\* count is above 0, else passed; its issue count is the number of its
\* vulnerabilities.
C13_CategoryStatus ==
  Analysed =>
    \A c \in Categories :
      LET r == aAnalyzer.analysisResults[c]
          grave == \E i \in 1..Len(r.vulnerabilities) :
                     r.vulnerabilities[i].severity \in {"critical", "high"}
      IN  /\ r.issueCount = Len(r.vulnerabilities)
          /\ r.status = "critical" <=> grave
          /\ ~grave => (r.status = "warning" <=> r.issueCount > 0)
          /\ (~grave /\ r.issueCount = 0) => r.status = "passed"

\* One category ended critical and another warning.
C13_Witness ==
  /\ Analysed
  /\ aAnalyzer.analysisResults["reconnaissance"].status = "critical"
  /\ aAnalyzer.analysisResults["xss"].status = "warning"

\* The vulnerability lists of the categories from registry index i on, one
\* after the other.
RECURSIVE CategoryLists(_, _)
CategoryLists(results, i) ==
  IF i > Len(Registry) THEN << >>
  ELSE results[Registry[i]].vulnerabilities \o CategoryLists(results, i + 1)

\* C14: the list analyzeAPK returns is the categories' lists in registry
\* order, each in its detector's order, and each of its vulnerabilities is
\* in the list of exactly one category.
C14_ReportListIsCategories ==
  Analysed =>
    LET vs == aAnalyzer.vulnerabilities
        results == aAnalyzer.analysisResults
    IN  /\ vs = CategoryLists(results, 1)
        /\ \A k \in 1..Len(vs) :
             Cardinality({c \in Categories :
                            \E m \in 1..Len(results[c].vulnerabilities) :
                              results[c].vulnerabilities[m] = vs[k]}) = 1

\* Two categories both found something.
C14_Witness ==
  /\ Analysed
  /\ Len(aAnalyzer.analysisResults["reconnaissance"].vulnerabilities) > 1
  /\ Len(aAnalyzer.analysisResults["xss"].vulnerabilities) > 1

\* The ids / severities of a list of vulnerabilities, in order.
Ids(vs) == [i \in 1..Len(vs) |-> vs[i].id]
SeverityOf(vs) == [i \in 1..Len(vs) |-> vs[i].severity]

\* C16: on a manifest text, analyzeReconnaissance yields recon-001 (medium)
\* exactly when it holds debuggable="true", recon-002 (low) exactly when it
\* holds allowBackup="true", recon-003 (high) exactly when it holds
\* exported="true" and no permission=; with all three these are its 3
\* vulnerabilities, in that order, and with nothing else found the score is 74.
C16_ReconFindings ==
  (Analysed /\ aManifest.kind = "text" /\ "reconnaissance" \in aAnalyzer.ran) =>
    LET vs == aAnalyzer.analysisResults["reconnaissance"].vulnerabilities
        marks == aManifest.marks
        Has(id) == \E i \in 1..Len(vs) : vs[i].id = id
        third == "exportedTrue" \in marks /\ "permissionAttr" \notin marks
    IN  /\ Has("recon-001") <=> "debuggableTrue" \in marks
        /\ Has("recon-002") <=> "allowBackupTrue" \in marks
        /\ Has("recon-003") <=> third
        /\ ("debuggableTrue" \in marks /\ "allowBackupTrue" \in marks /\ third) =>
             /\ Ids(vs) = << "recon-001", "recon-002", "recon-003" >>
             /\ SeverityOf(vs) = << "medium", "low", "high" >>
             /\ (Scored /\ Len(aAnalyzer.vulnerabilities) = 3) =>
                  aUpdate[1].report.securityScore = Some(74)

\* The manifest with the three findings and nothing else was scored.
C16_Witness ==
  /\ Scored
  /\ aManifest.marks = {"debuggableTrue", "allowBackupTrue", "exportedTrue"}
  /\ Len(aAnalyzer.vulnerabilities) = 3
  /\ aUpdate[1].report.securityScore = Some(74)

\* C17: for every file analyzeXSS is given that holds
\* setJavaScriptEnabled(true) and not both addJavascriptInterface and
\* @JavascriptInterface, the xss category has exactly one xss-001
\* vulnerability, of severity high, located at that file; and no file has
\* more than one vulnerability of one pattern.
C17_XSSFindings ==
  (Analysed /\ "xss" \in aAnalyzer.ran) =>
    LET vs == aAnalyzer.analysisResults["xss"].vulnerabilities
        Of(id, f) == {i \in 1..Len(vs) : vs[i].id = id /\ vs[i].location = f.path}
    IN  \A k \in 1..Len(aSources) :
          LET f == aSources[k]
          IN  f.ext \in XSSExtensions =>
                /\ \A id \in {"xss-001", "xss-002", "xss-003"} : Cardinality(Of(id, f)) <= 1
                /\ (/\ "setJavaScriptEnabled" \in f.marks
                    /\ f.readable
                    /\ ~(/\ "addJavascriptInterface" \in f.marks
                         /\ "JavascriptInterfaceAnnotation" \in f.marks)) =>
                     /\ Cardinality(Of("xss-001", f)) = 1
                     /\ \A i \in Of("xss-001", f) : vs[i].severity = "high"

\* C18: when all that goes wrong during extraction is that entries cannot
\* be written, extractAPK does not reject, and once it has resolved every
\* entry of the archive was emitted and no file entry is still being written:
\* every file entry whose write did not fail has its file on disk.
C18_FailedEntrySkipped ==
  /\ (xFaults \subseteq {"mkdir", "write"}) => xPromise # "rejected"
  /\ (xPromise = "resolved" /\ xFaults \subseteq {"mkdir", "write"}) =>
       /\ xLost = 0
       /\ xStreams = {}

\* C19: a job whose archive is missing or cannot be opened runs no detector,
\* builds and signs nothing, and is never completed: analyzeAPK throws and
\* the job ends failed.
C19_UnopenedArchiveFails ==
  \A j \in Jobs :
    upload[j].zip \in {"missing", "unopenable"} =>
      /\ analyzer[j].ran = {}
      /\ analyzer[j].vulnerabilities = << >>
      /\ devMode[j] = "notRun"
      /\ apkFiles[j] = {}
      /\ keytool[j] = "idle"
      /\ outcome[j].kind # "returned"
      /\ status[j] # "completed"
      /\ pc[j] = "done" => (outcome[j].kind = "threw" /\ status[j] = "failed")

\* A job whose archive yauzl could not open has ended.
C19_Witness ==
  \E j \in Jobs :
    /\ upload[j].zip = "unopenable"
    /\ pc[j] = "done"
    /\ status[j] = "failed"

\* C20: a job whose archive holds no AndroidManifest.xml gets the empty
\* metadata from parseManifest, has every detector produce its category
\* result, and ends completed with an empty permission list.
C20_NoManifestCompletes ==
  \A j \in Jobs :
    (upload[j].zip = "valid" /\ upload[j].manifest.kind = "absent") =>
      /\ pc[j] \notin {"none", "created", "opening", "extracting", "extracted"} =>
           packageInfo[j] = NoManifest
      /\ pc[j] \notin {"none", "created", "opening", "extracting", "extracted", "parsed"} =>
           analyzer[j].ran = Categories \ thrown[j]
      /\ pc[j] = "done" =>
           /\ status[j] = "completed"
           /\ record[j].permissions = Some(0)

\* C21: a job whose manifest was parsed and whose analyzeAPK returned ends
\* completed, with one permission stored for every uses-permission element
\* of the manifest, whether there are none, one or many.
C21_PermissionsListed ==
  \A j \in Jobs :
    (/\ upload[j].manifest.kind = "text"
     /\ outcome[j].kind = "returned"
     /\ pc[j] = "done") =>
      /\ status[j] = "completed"
      /\ record[j].permissions = Some(upload[j].manifest.usesPermission)

\* The application tag holds the flag `name`, and holds it as true only.
FlagTrue(doc, name) ==
  /\ \E i \in 1..Len(doc.attributes) : doc.attributes[i].name = name
  /\ \A i \in 1..Len(doc.attributes) :
       doc.attributes[i].name = name => doc.attributes[i].value = "true"

\* C22: for a manifest text with an application element, the text
\* enhanceManifestForDevMode returns has debuggable and allowBackup true on
\* that element, and a networkSecurityConfig attribute on it.
C22_FlagsForcedTrue ==
  (mCalls >= 1 /\ mInput.application = "open") =>
    /\ mText.application = "open"
    /\ FlagTrue(mText, "debuggable")
    /\ FlagTrue(mText, "allowBackup")
    /\ \E i \in 1..Len(mText.attributes) : mText.attributes[i].name = "networkSecurityConfig"

\* How often x stands in the sequence q.
Occurrences(q, x) == Cardinality({i \in 1..Len(q) : q[i] = x})

\* C30: the text enhanceManifestForDevMode has returned is returned unchanged
\* when the method is applied to it, and it holds no attribute and no test
\* permission more often than once, or than the text read held it.
C30_EnhanceIdempotent ==
  mCalls >= 1 =>
    /\ enhanceManifestForDevMode(mText) = mText
    /\ \A name \in AttributeNames :
         LET names(doc) == [i \in 1..Len(doc.attributes) |-> doc.attributes[i].name]
         IN  Occurrences(names(mText), name) <= Max(1, Occurrences(names(mInput), name))
    /\ \A k \in 1..Len(testPermissions) :
         Occurrences(mText.declared, testPermissions[k])
           <= Max(1, Occurrences(mInput.declared, testPermissions[k]))

\* The method was applied to its own output, after a first call that put
\* attributes and permissions into the text.
C30_Witness ==
  /\ mCalls = 2
  /\ Len(mText.attributes) > Len(mInput.attributes)
  /\ Len(mText.declared) > Len(mInput.declared)

\* The entries of the archive that are named after the file f.
EntriesOf(f) == {i \in 1..Len(dArchive) : dArchive[i].name = f}

\* C23: with a manifest at the root of the tree, the finalized archive holds
\* every file of the tree that is neither that manifest nor a .java, .kt or
\* .smali file, as it is and under its own path.
C23_RemainingFilesCopied ==
  (dPc \in {"finalized", "resolved"} /\ ManifestFile \in dTree) =>
    \A f \in dTree :
      (f # ManifestFile /\ f.ext \notin SourceExtensions) =>
        \E i \in EntriesOf(f) : dArchive[i].content = "original"

\* C24: once processSourceFilesForDevMode has reached a source file, the
\* archive holds that file exactly once, modified or as it is, and the loop
\* goes on to every source file before the archive is finalized.
C24_SourceFailureSkipped ==
  (dPc \in {"sources", "finalized", "resolved"} /\ ManifestFile \in dTree) =>
    /\ \A f \in SourceFiles(dTree) \ dQueue :
         /\ Cardinality(EntriesOf(f)) = 1
         /\ \A i \in EntriesOf(f) : dArchive[i].content \in {"modified", "original"}
    /\ dPc \in {"finalized", "resolved"} => dQueue = {}

\* A source file that failed was added as it is, a later one was modified,
\* and the archive was written.
C24_Witness ==
  /\ dPc = "resolved"
  /\ \E i, k \in 1..Len(dArchive) :
       /\ i < k
       /\ dArchive[i].name \in SourceFiles(dTree)
       /\ dArchive[i].content = "original"
       /\ dArchive[k].name \in SourceFiles(dTree)
       /\ dArchive[k].content = "modified"

\* C29: no two entries of the archive generateDevModeAPK builds have the
\* same name.
C29_EntryNamesDistinct ==
  \A i, k \in 1..Len(dArchive) : dArchive[i].name = dArchive[k].name => i = k

\* C25: a record whose status is completed has its security score, its
\* vulnerability list and its category results set.
C25_CompletedHasReport ==
  \A j \in Jobs :
    status[j] = "completed" =>
      /\ record[j].securityScore # Null
      /\ record[j].securityScore[1] \in 0..100
      /\ record[j].vulnerabilities # Null
      /\ record[j].analysisResults # Null

\* A job was completed with a report and no artifact path.
C25_Witness ==
  \E j \in Jobs :
    /\ status[j] = "completed"
    /\ record[j].fixedApkPath = Null
    /\ record[j].vulnerabilities # Null
    /\ Len(record[j].vulnerabilities[1]) > 0

\* C26: extractAPK's promise settles in the end, whatever the archive holds
\* and whichever reads and writes of its entries fail.
C26_ExtractionSettles == <>(xPromise \in {"resolved", "rejected"})

\* C27: readEntry() is never called while an earlier call is unanswered,
\* yauzl emits no entry from a cursor moved twice, and the promise is not
\* resolved while an entry is still being written.
C27_OneRequestPerEntry ==
  /\ xRequests <= 1
  /\ ~xOverlap
  /\ xLost = 0
  /\ xPromise = "resolved" => xStreams = {}

\* C28: while signApk runs jarsigner on the keystore, the keytool run its
\* own signer started is not in progress and the keystore file is not
\* partly written.
C28_SignsAfterProvisioning ==
  \A j \in Jobs :
    pc[j] = "jarsigning" =>
      /\ keytool[j] \in {"idle", "done"}
      /\ keystore # "partial"

\* C8: signApk never throws, and the path it returns names a file that
\* exists, whatever zipalign, jarsigner, the keystore, copy and rename do.
C8_SignedPathExists ==
  \A j \in Jobs :
    (devMode[j] = "built" /\ Exited(j)) =>
      /\ outcome[j].kind = "returned"
      /\ outcome[j].fixedApkPath # Null
      /\ outcome[j].fixedApkPath[1] \in apkFiles[j]

C8_Witness ==
  /\ Exited(1)
  /\ outcome[1].fixedApkPath = Some("unsigned")
  /\ "aligned" \in apkFiles[1]

\* C9: keystore generation never starts while another is in progress, and a
\* keystore that exists is never written over.
C9_KeystoreGeneratedOnce ==
  /\ \A i, j \in Jobs :
       (i # j /\ keytool[i] \in {"started", "generating", "writing"}) =>
         keytool[j] \notin {"started", "generating", "writing"}
  /\ ~clobbered

\* Job j is between the construction of its analyzer and analyzeAPK's return.
InAnalyzeAPK(j) ==
  pc[j] \in {"opening", "extracting", "stalled", "extracted", "parsed", "analysed",
             "building", "aligning", "jarsigning"}

\* C10: two jobs inside analyzeAPK never have the same scratch directory.
C10_ScratchNotShared ==
  \A i, j \in Jobs :
    (i # j /\ InAnalyzeAPK(i) /\ InAnalyzeAPK(j)) =>
      analyzer[i].extractedPath # analyzer[j].extractedPath

====
